---- MODULE Spec2Model ----
(***************************************************************************)
(* Order lifecycle and billing of the restaurant POS server.              *)
(*                                                                         *)
(* The state is the in-memory store of MemStorage (the orders and          *)
(* orderItems maps with their id counters), the wall clock read by         *)
(* `new Date()`, and the HTTP response of the request handled last.        *)
(* Every action is one Express route handler of server/routes.ts run to    *)
(* completion, together with the MemStorage methods it calls               *)
(* (LocalIntegratedStorage only delegates the order operations).  The      *)
(* menu is held twice, in MemStorage.menuItems and in the files of         *)
(* LocalFileStorage that LocalIntegratedStorage mirrors it to.  Where      *)
(* requests overlap, reqs holds the handlers in flight, each one at the    *)
(* await it is suspended at, with the locals it read so far.  paidBefore   *)
(* is a history variable: whether the order of the last settlement was     *)
(* already paid when the settlement arrived; so is kotSent: the ids of the *)
(* order items that one KOT answer has listed in its kotItems, and of      *)
(* those that more than one has.  users and currentUserId are the user     *)
(* store of MemStorage, which the register route reaches through           *)
(* S3IntegratedStorage.  page is the POS page in the browser: its          *)
(* currentOrderId state, its mutations in flight and its pending timer.    *)
(*                                                                         *)
(* JavaScript objects are functions from field names to values; a field    *)
(* that is `undefined` is a field outside the DOMAIN, so the object        *)
(* spread {...a, ...b} is Spread(a, b).  Numeric columns hold decimal      *)
(* strings in the code; a decimal string is represented by the amount it   *)
(* denotes, counted in hundredths of the currency unit, and the prices     *)
(* are whole currency units, so that the 5% tax is exact.  The nullable    *)
(* payment columns hold <<>> for null and <<v>> for the value v.           *)
(***************************************************************************)
EXTENDS Integers, FiniteSets, Sequences, TLC

VARIABLES orders, orderItems, currentOrderId, currentOrderItemId, clock, res,
          menuItems, currentMenuItemId, menuItemFiles, reqs, paidBefore,
          kotSent, users, currentUserId, page

\* The menu: MemStorage.menuItems with its id counter, and the files of
\* LocalFileStorage that mirror it.
menuVars == <<menuItems, currentMenuItemId, menuItemFiles>>

\* The users: MemStorage.users with its id counter.
userVars == <<users, currentUserId>>

vars == <<orders, orderItems, currentOrderId, currentOrderItemId, clock, res,
          menuVars, reqs, paidBefore, kotSent, userVars, page>>

\* Bounds of the model: orders and order items ever created, clock ticks.
MaxOrders == 1
MaxItems == 2
MaxClock == 2
\* Orders created where the claims are about lists of orders.
MaxListed == 3
\* Menu items ever created.
MaxMenuItems == 2
\* Requests in flight at once, where requests overlap.
MaxRequests == 2
\* Users ever created.
MaxUsers == 3

\* Base of the order numbers, and the tax rate in percent.
OrderNumberBase == 1000
TaxPercent == 5

\* The length of a day, in clock ticks.
DayLength == 2

\* HTTP status codes the routes answer with.
Ok == 200
Created == 201
NoContent == 204
BadRequest == 400
NotFound == 404
ServerError == 500

JsNull == <<>>
Undefined == <<>>

\* The ids a request may name: every id that can be assigned, and an order
\* id that never is, so that ids not (yet) stored are named as well.
OrderIds == 1..(MaxOrders + 1)
ItemIds == 1..MaxItems
MenuItemIds == 1..(MaxMenuItems + 1)
Requests == 1..MaxRequests

----------------------------------------------------------------------------
\* JavaScript helpers.

Has(obj, f) == f \in DOMAIN obj

\* {...a, ...b}
Spread(a, b) ==
    [f \in (DOMAIN a) \cup (DOMAIN b) |-> IF f \in DOMAIN b THEN b[f] ELSE a[f]]

\* Array.from(map.values()) of a Map, as a set: the records are pairwise
\* distinct, each holds its key as id.
Values(map) == {map[k] : k \in DOMAIN map}

\* map.set(k, v)
MapSet(map, k, v) == [x \in (DOMAIN map) \cup {k} |-> IF x = k THEN v ELSE map[x]]

\* map.delete(k)
MapDelete(map, k) == [x \in (DOMAIN map) \ {k} |-> map[x]]

\* `x || null` of an optional number: undefined and 0 are falsy.
OrNullNumber(x) == IF x = Undefined \/ x[1] = 0 THEN JsNull ELSE x

\* `x || null` of an optional string: undefined and "" are falsy.
OrNullString(x) == IF x = Undefined \/ x[1] = "" THEN JsNull ELSE x

\* Number(order.packagingFee || 0)
FeeOf(order) == IF Has(order, "packagingFee") THEN order.packagingFee ELSE 0

RECURSIVE SumLines(_)
\* items.reduce((sum, item) => sum + Number(item.price) * item.quantity, 0)
SumLines(items) ==
    IF items = {} THEN 0
    ELSE LET item == CHOOSE x \in items : TRUE
         IN  item.price * item.quantity + SumLines(items \ {item})

----------------------------------------------------------------------------
\* MemStorage, as operators from the store to the new store.

\* createOrder that lets the fields of the request replace the id and the
\* timestamps.
createOrderIdFirst(os, id, order, now) ==
    MapSet(os, id, Spread([id |-> id, createdAt |-> now, updatedAt |-> now], order))

getOrderItems(its, orderId) == {item \in Values(its) : item.orderId = orderId}

createOrder(os, id, order, now) ==
    MapSet(os, id, Spread(order, [id |-> id, createdAt |-> now, updatedAt |-> now]))

updateOrder(os, id, order, now) ==
    IF id \notin DOMAIN os THEN os
    ELSE MapSet(os, id, Spread(Spread(os[id], order), [updatedAt |-> now]))

\* updateOrderPayment that records the method and forgets the status.
updateOrderPaymentKeepsStatus(os, id, paymentMethod, bankReference, cashAmount, bankAmount, now) ==
    IF id \notin DOMAIN os THEN os
    ELSE MapSet(os, id,
           Spread(os[id], [paymentMethod |-> paymentMethod,
                           bankReference |-> OrNullString(bankReference),
                           cashAmount    |-> OrNullNumber(cashAmount),
                           bankAmount    |-> OrNullNumber(bankAmount),
                           updatedAt     |-> now]))

updateOrderPayment(os, id, paymentMethod, bankReference, cashAmount, bankAmount, now) ==
    IF id \notin DOMAIN os THEN os
    ELSE MapSet(os, id,
           Spread(os[id], [paymentStatus |-> "paid",
                           paymentMethod |-> paymentMethod,
                           bankReference |-> OrNullString(bankReference),
                           cashAmount    |-> OrNullNumber(cashAmount),
                           bankAmount    |-> OrNullNumber(bankAmount),
                           updatedAt     |-> now]))

\* recalculateOrderTotal that leaves the packaging fee out of the total.
recalculateOrderTotalNoFee(os, its, orderId, now) ==
    IF orderId \notin DOMAIN os THEN os
    ELSE LET subtotal    == SumLines(getOrderItems(its, orderId))
             tax         == (subtotal * TaxPercent) \div 100
             totalAmount == subtotal + tax
         IN  updateOrder(os, orderId,
                         [subtotal |-> subtotal, tax |-> tax, totalAmount |-> totalAmount],
                         now)

recalculateOrderTotal(os, its, orderId, now) ==
    IF orderId \notin DOMAIN os THEN os
    ELSE LET subtotal    == SumLines(getOrderItems(its, orderId))
             tax         == (subtotal * TaxPercent) \div 100
             totalAmount == subtotal + tax + FeeOf(os[orderId])
         IN  updateOrder(os, orderId,
                         [subtotal |-> subtotal, tax |-> tax, totalAmount |-> totalAmount],
                         now)

RECURSIVE ValuesSeq(_)
\* Array.from(map.values()): the values in the order of insertion, which is
\* the order of the keys, since keys are assigned increasing and a key
\* that is set again keeps its place.
ValuesSeq(map) ==
    IF DOMAIN map = {} THEN <<>>
    ELSE LET k == CHOOSE x \in DOMAIN map : \A y \in DOMAIN map : y <= x
         IN  Append(ValuesSeq(MapDelete(map, k)), map[k])

\* Where the stable sort puts x among the sorted elements before it, under
\* the comparator (a, b) => b.createdAt - a.createdAt: after every element
\* that is not older than x.
InsertNewestFirst(sorted, x) ==
    LET n == Cardinality({i \in 1..Len(sorted) : sorted[i].createdAt >= x.createdAt})
    IN  SubSeq(sorted, 1, n) \o <<x>> \o SubSeq(sorted, n + 1, Len(sorted))

RECURSIVE SortNewestFirst(_)
\* .sort((a, b) => new Date(b.createdAt).getTime() - new Date(a.createdAt).getTime())
SortNewestFirst(seq) ==
    IF seq = <<>> THEN <<>>
    ELSE InsertNewestFirst(SortNewestFirst(SubSeq(seq, 1, Len(seq) - 1)), seq[Len(seq)])

getAllOrders(os) == SortNewestFirst(ValuesSeq(os))

\* getOrdersByDateRange with the end of the range left out.
getOrdersByDateRangeOpenEnd(os, startDate, endDate) ==
    SortNewestFirst(SelectSeq(ValuesSeq(os),
        LAMBDA order : order.createdAt >= startDate /\ order.createdAt < endDate))

getOrdersByDateRange(os, startDate, endDate) ==
    SortNewestFirst(SelectSeq(ValuesSeq(os),
        LAMBDA order : order.createdAt >= startDate /\ order.createdAt <= endDate))

\* endDate.setHours(23, 59, 59, 999): the last instant of the day of t.
EndOfDay(t) == (t \div DayLength) * DayLength + (DayLength - 1)

\* updateOrderItemStatus that also clears the quantity of the item.
updateOrderItemStatusClearing(its, id, status) ==
    IF id \notin DOMAIN its THEN its
    ELSE MapSet(its, id, Spread(its[id], [status |-> status, quantity |-> 0]))

newOrderItem(id, item, now) == Spread(item, [id |-> id, createdAt |-> now])

updateOrderItemStatus(its, id, status) ==
    IF id \notin DOMAIN its THEN its
    ELSE MapSet(its, id, Spread(its[id], [status |-> status]))

updateOrderItemQuantity(its, id, quantity) ==
    IF id \notin DOMAIN its THEN its
    ELSE MapSet(its, id, Spread(its[id], [quantity |-> quantity]))

\* A filter that takes every item not yet completed for pending.
UncompletedItems(items) == {item \in items : item.status # "completed"}

\* items.filter(item => item.status === "pending")
PendingItems(items) == {item \in items : item.status = "pending"}

RECURSIVE updateAll(_, _, _)
\* Promise.all(items.map(item => storage.updateOrderItemStatus(item.id, status)))
updateAll(its, items, status) ==
    IF items = {} THEN its
    ELSE LET item == CHOOSE x \in items : TRUE
         IN  updateAll(updateOrderItemStatus(its, item.id, status), items \ {item}, status)

\* MemStorage.getUserByUsername: a stored user of that name, <<>> if there
\* is none.  S3IntegratedStorage.getUserByUsername asks the bucket first and
\* falls back to this whenever the bucket gives no user.
getUserByUsername(us, username) ==
    IF \E user \in Values(us) : user.username = username
    THEN <<CHOOSE user \in Values(us) : user.username = username>>
    ELSE <<>>

\* MemStorage.createUser
createUser(us, id, insertUser) == MapSet(us, id, Spread(insertUser, [id |-> id]))

\* hashPassword: the scrypt hash of the password, with its salt.
hashPassword(password) == <<"scrypt", password>>

\* MemStorage: the menu.
createMenuItem(ms, id, item) == MapSet(ms, id, Spread(item, [id |-> id]))

updateMenuItem(ms, id, item) ==
    IF id \notin DOMAIN ms THEN ms ELSE MapSet(ms, id, Spread(ms[id], item))

toggleMenuItem(ms, id) ==
    IF id \notin DOMAIN ms THEN ms
    ELSE MapSet(ms, id, Spread(ms[id], [isActive |-> ~ms[id].isActive]))

\* LocalFileStorage.saveMenuItem: the file menu-item-<id>.json is written
\* with the item as JSON; an item holds texts, numbers and a boolean only,
\* which JSON.parse gives back as they were written.
saveMenuItem(files, menuItemId, menuItemData) == MapSet(files, menuItemId, menuItemData)

\* LocalIntegratedStorage.getMenuItem: the file if there is one, otherwise
\* the memory; <<>> when neither holds the item.
getMenuItem(ms, files, id) ==
    IF id \in DOMAIN files THEN <<files[id]>>
    ELSE IF id \in DOMAIN ms THEN <<ms[id]>> ELSE <<>>

\* MemStorage.getMenuItemsByCategory: the active items of the category.
MemStorage_getMenuItemsByCategory(ms, categoryId) ==
    {item \in Values(ms) : item.categoryId = categoryId /\ item.isActive}

\* LocalFileStorage.getMenuItemsByCategory: the items of the category among
\* the files.
LocalFileStorage_getMenuItemsByCategory(files, categoryId) ==
    {item \in Values(files) : item.categoryId = categoryId}

\* LocalIntegratedStorage.getMenuItemsByCategory: what the files give if
\* they give any item, otherwise what the memory gives.
getMenuItemsByCategory(ms, files, categoryId) ==
    LET menuItems_ == LocalFileStorage_getMenuItemsByCategory(files, categoryId)
    IN  IF menuItems_ # {} THEN menuItems_
        ELSE MemStorage_getMenuItemsByCategory(ms, categoryId)

\* LocalIntegratedStorage.getAllMenuItems: the files if there are any,
\* otherwise the memory.
getAllMenuItems(ms, files) ==
    IF Values(files) # {} THEN Values(files) ELSE Values(ms)

----------------------------------------------------------------------------
Init ==
    /\ orders = <<>>
    /\ orderItems = <<>>
    /\ currentOrderId = 1
    /\ currentOrderItemId = 1
    /\ clock = 0
    /\ res = [op |-> "none", id |-> 0, code |-> 0]
    /\ menuItems = <<>>
    /\ currentMenuItemId = 1
    /\ menuItemFiles = <<>>
    /\ reqs = <<>>
    /\ paidBefore = FALSE
    /\ kotSent = [once |-> {}, again |-> {}]
    /\ users = <<>>
    /\ currentUserId = 1
    /\ page = [currentOrderId |-> Undefined, creating |-> FALSE,
               timer |-> <<>>, adding |-> <<>>, asked |-> <<>>]

\* Time passes between requests; `new Date()` reads the clock, and the
\* requests handled within one tick read the same time.
Tick ==
    /\ clock < MaxClock
    /\ clock' = clock + 1
    /\ UNCHANGED <<orders, orderItems, currentOrderId, currentOrderItemId, res>>
    /\ UNCHANGED <<menuVars, reqs, paidBefore, kotSent, userVars, page>>

\* POST /api/orders that numbers every order as the first one.
HandlePostOrdersFirstNumber(body) ==
    /\ LET orderNumber == OrderNumberBase + 1
           orderData   == Spread(body, [orderNumber |-> orderNumber])
           id          == currentOrderId
           os          == createOrder(orders, id, orderData, clock)
       IN  /\ orders' = os
           /\ currentOrderId' = id + 1
           /\ res' = [op |-> "createOrder", id |-> id, code |-> Created, order |-> os[id]]
    /\ UNCHANGED <<orderItems, currentOrderItemId, clock>>
    /\ UNCHANGED <<menuVars, reqs, paidBefore, kotSent, userVars, page>>

\* POST /api/orders
HandlePostOrders(body) ==
    /\ LET allOrders   == Values(orders)
           orderNumber == OrderNumberBase + Cardinality(allOrders) + 1
           orderData   == Spread(body, [orderNumber |-> orderNumber])
           id          == currentOrderId
           os          == createOrder(orders, id, orderData, clock)
       IN  /\ orders' = os
           /\ currentOrderId' = id + 1
           /\ res' = [op |-> "createOrder", id |-> id, code |-> Created, order |-> os[id]]
    /\ UNCHANGED <<orderItems, currentOrderItemId, clock>>
    /\ UNCHANGED <<menuVars, reqs, paidBefore, kotSent, userVars, page>>

\* POST /api/orders, while fewer than MaxOrders orders were created.
PostOrders(body) == currentOrderId <= MaxOrders /\ HandlePostOrders(body)

\* POST /api/orders, while fewer than MaxListed orders were created.
PostOrdersListed(body) == currentOrderId <= MaxListed /\ HandlePostOrders(body)

\* PUT /api/orders/:id
PutOrder(id, body) ==
    /\ LET os == updateOrder(orders, id, body, clock)
       IN  /\ orders' = os
           /\ res' = IF id \in DOMAIN orders
                     THEN [op |-> "updateOrder", id |-> id, code |-> Ok, order |-> os[id]]
                     ELSE [op |-> "updateOrder", id |-> id, code |-> NotFound]
    /\ UNCHANGED <<orderItems, currentOrderId, currentOrderItemId, clock>>
    /\ UNCHANGED <<menuVars, reqs, paidBefore, kotSent, userVars, page>>

\* POST /api/orders/:id/payment that keeps the bank reference of an earlier
\* settlement when the request holds none.
PostPaymentKeepsReference(id, body) ==
    /\ LET kept == IF id \in DOMAIN orders /\ Has(orders[id], "bankReference")
                      /\ body.bankReference = Undefined
                   THEN orders[id].bankReference ELSE body.bankReference
           os   == updateOrderPayment(orders, id, body.paymentMethod, kept,
                                      body.cashAmount, body.bankAmount, clock)
       IN  /\ orders' = os
           /\ res' = IF id \in DOMAIN orders
                     THEN [op |-> "settlePayment", id |-> id, code |-> Ok, order |-> os[id]]
                     ELSE [op |-> "settlePayment", id |-> id, code |-> NotFound]
    /\ paidBefore' = (id \in DOMAIN orders /\ orders[id].paymentStatus = "paid")
    /\ UNCHANGED <<kotSent, userVars, page>>
    /\ UNCHANGED <<orderItems, currentOrderId, currentOrderItemId, clock>>
    /\ UNCHANGED <<menuVars, reqs>>

\* POST /api/orders/:id/payment
PostPayment(id, body) ==
    /\ LET os == updateOrderPayment(orders, id, body.paymentMethod, body.bankReference,
                                    body.cashAmount, body.bankAmount, clock)
       IN  /\ orders' = os
           /\ res' = IF id \in DOMAIN orders
                     THEN [op |-> "settlePayment", id |-> id, code |-> Ok, order |-> os[id]]
                     ELSE [op |-> "settlePayment", id |-> id, code |-> NotFound]
    /\ paidBefore' = (id \in DOMAIN orders /\ orders[id].paymentStatus = "paid")
    /\ UNCHANGED <<kotSent, userVars, page>>
    /\ UNCHANGED <<orderItems, currentOrderId, currentOrderItemId, clock>>
    /\ UNCHANGED <<menuVars, reqs>>

\* POST /api/orders/:orderId/items, with MemStorage.addOrderItem
PostItem(orderId, body) ==
    /\ currentOrderItemId <= MaxItems
    /\ LET itemData == Spread(body, [orderId |-> orderId])
           id       == currentOrderItemId
           newItem  == newOrderItem(id, itemData, clock)
           its      == MapSet(orderItems, id, newItem)
       IN  /\ currentOrderItemId' = id + 1
           /\ orderItems' = its
           /\ orders' = recalculateOrderTotal(orders, its, orderId, clock)
           /\ res' = [op |-> "addItem", id |-> orderId, code |-> Created, item |-> newItem]
    /\ UNCHANGED <<currentOrderId, clock>>
    /\ UNCHANGED <<menuVars, reqs, paidBefore, kotSent, userVars, page>>

\* PUT /api/order-items/:id/status
PutItemStatus(id, status) ==
    /\ LET its == updateOrderItemStatus(orderItems, id, status)
       IN  /\ orderItems' = its
           /\ res' = IF id \in DOMAIN orderItems
                     THEN [op |-> "updateStatus", id |-> id, code |-> Ok, item |-> its[id]]
                     ELSE [op |-> "updateStatus", id |-> id, code |-> NotFound]
    /\ UNCHANGED <<orders, currentOrderId, currentOrderItemId, clock>>
    /\ UNCHANGED <<menuVars, reqs, paidBefore, kotSent, userVars, page>>

\* PUT /api/order-items/:id/quantity, with MemStorage.updateOrderItemQuantity
PutItemQuantity(id, quantity) ==
    /\ LET its == updateOrderItemQuantity(orderItems, id, quantity)
       IN  /\ orderItems' = its
           /\ orders' = IF id \in DOMAIN orderItems
                        THEN recalculateOrderTotal(orders, its, orderItems[id].orderId, clock)
                        ELSE orders
           /\ res' = IF id \in DOMAIN orderItems
                     THEN [op |-> "updateQuantity", id |-> id, code |-> Ok, item |-> its[id]]
                     ELSE [op |-> "updateQuantity", id |-> id, code |-> NotFound]
    /\ UNCHANGED <<currentOrderId, currentOrderItemId, clock>>
    /\ UNCHANGED <<menuVars, reqs, paidBefore, kotSent, userVars, page>>

\* DELETE /api/order-items/:id that answers 204 whether the id was stored
\* or not.
DeleteItemAlways(id) ==
    /\ LET its == MapDelete(orderItems, id)
       IN  /\ orderItems' = its
           /\ orders' = IF id \in DOMAIN orderItems
                        THEN recalculateOrderTotal(orders, its, orderItems[id].orderId, clock)
                        ELSE orders
           /\ res' = [op |-> "removeItem", id |-> id, code |-> NoContent]
    /\ UNCHANGED <<currentOrderId, currentOrderItemId, clock>>
    /\ UNCHANGED <<menuVars, reqs, paidBefore, kotSent, userVars, page>>

\* DELETE /api/order-items/:id, with MemStorage.removeOrderItem
DeleteItem(id) ==
    /\ LET its == MapDelete(orderItems, id)
       IN  /\ orderItems' = its
           /\ orders' = IF id \in DOMAIN orderItems
                        THEN recalculateOrderTotal(orders, its, orderItems[id].orderId, clock)
                        ELSE orders
           /\ res' = IF id \in DOMAIN orderItems
                     THEN [op |-> "removeItem", id |-> id, code |-> NoContent]
                     ELSE [op |-> "removeItem", id |-> id, code |-> NotFound]
    /\ UNCHANGED <<currentOrderId, currentOrderItemId, clock>>
    /\ UNCHANGED <<menuVars, reqs, paidBefore, kotSent, userVars, page>>

----------------------------------------------------------------------------
\* Overlapping requests.  A handler runs from one await to the next without
\* interruption; at an await it is suspended, and any other handler may run
\* before it resumes.  A storage method is an async function without awaits
\* before its reads and writes, so these happen at the moment of the call,
\* and its result reaches the caller when the caller resumes.  reqs[r] is
\* the handler of request r suspended at the await named by pc.

InFlight(op) == {r \in DOMAIN reqs : reqs[r].op = op}

\* POST /api/orders up to `await storage.getAllOrders()`: the orders are
\* read.
PostOrdersRead(r, body) ==
    /\ r \notin DOMAIN reqs
    /\ currentOrderId + Cardinality(InFlight("createOrder")) <= MaxListed
    /\ reqs' = MapSet(reqs, r, [op |-> "createOrder", pc |-> "getAllOrders",
                                body |-> body, allOrders |-> Values(orders)])
    /\ UNCHANGED <<orders, orderItems, currentOrderId, currentOrderItemId, clock, res>>
    /\ UNCHANGED <<menuVars, paidBefore, kotSent, userVars, page>>

\* POST /api/orders from there on, with the order number taken from the
\* orders stored now.
PostOrdersCreateRecount(r) ==
    /\ r \in DOMAIN reqs
    /\ reqs[r].pc = "getAllOrders"
    /\ LET orderNumber == OrderNumberBase + Cardinality(Values(orders)) + 1
           orderData   == Spread(reqs[r].body, [orderNumber |-> orderNumber])
           id          == currentOrderId
           os          == createOrder(orders, id, orderData, clock)
       IN  /\ orders' = os
           /\ currentOrderId' = id + 1
           /\ res' = [op |-> "createOrder", id |-> id, code |-> Created, order |-> os[id]]
    /\ reqs' = MapDelete(reqs, r)
    /\ UNCHANGED <<orderItems, currentOrderItemId, clock>>
    /\ UNCHANGED <<menuVars, paidBefore, kotSent, userVars, page>>

\* POST /api/orders from there on: the order number is taken from the
\* orders that were read, the order is created and returned.
PostOrdersCreate(r) ==
    /\ r \in DOMAIN reqs
    /\ reqs[r].pc = "getAllOrders"
    /\ LET orderNumber == OrderNumberBase + Cardinality(reqs[r].allOrders) + 1
           orderData   == Spread(reqs[r].body, [orderNumber |-> orderNumber])
           id          == currentOrderId
           os          == createOrder(orders, id, orderData, clock)
       IN  /\ orders' = os
           /\ currentOrderId' = id + 1
           /\ res' = [op |-> "createOrder", id |-> id, code |-> Created, order |-> os[id]]
    /\ reqs' = MapDelete(reqs, r)
    /\ UNCHANGED <<orderItems, currentOrderItemId, clock>>
    /\ UNCHANGED <<menuVars, paidBefore, kotSent, userVars, page>>

\* A handler that has changed an item of the order and has called
\* recalculateOrderTotal, which runs up to `await this.getOrder(orderId)`:
\* the order is read; response is what the route will answer.
Recalculating(orderId, response) ==
    [op |-> response.op, pc |-> "getOrder", orderId |-> orderId,
     order |-> IF orderId \in DOMAIN orders THEN <<orders[orderId]>> ELSE <<>>,
     items |-> {}, response |-> response]

\* POST /api/orders/:orderId/items up to the first await of the
\* recalculation: the item is stored.
PostItemBegin(r, orderId, body) ==
    /\ r \notin DOMAIN reqs
    /\ currentOrderItemId <= MaxItems
    /\ LET itemData == Spread(body, [orderId |-> orderId])
           id       == currentOrderItemId
           newItem  == newOrderItem(id, itemData, clock)
       IN  /\ currentOrderItemId' = id + 1
           /\ orderItems' = MapSet(orderItems, id, newItem)
           /\ reqs' = MapSet(reqs, r, Recalculating(orderId,
                          [op |-> "addItem", id |-> orderId, code |-> Created,
                           item |-> newItem]))
    /\ UNCHANGED <<orders, currentOrderId, clock, res>>
    /\ UNCHANGED <<menuVars, paidBefore, kotSent, userVars, page>>

\* PUT /api/order-items/:id/quantity up to the first await of the
\* recalculation: the quantity is stored; an unknown id is answered at once.
PutItemQuantityBegin(r, id, quantity) ==
    /\ r \notin DOMAIN reqs
    /\ LET its == updateOrderItemQuantity(orderItems, id, quantity)
       IN  IF id \notin DOMAIN orderItems
           THEN /\ res' = [op |-> "updateQuantity", id |-> id, code |-> NotFound]
                /\ UNCHANGED <<orderItems, reqs>>
           ELSE /\ orderItems' = its
                /\ reqs' = MapSet(reqs, r, Recalculating(orderItems[id].orderId,
                               [op |-> "updateQuantity", id |-> id, code |-> Ok,
                                item |-> its[id]]))
                /\ UNCHANGED res
    /\ UNCHANGED <<orders, currentOrderId, currentOrderItemId, clock>>
    /\ UNCHANGED <<menuVars, paidBefore, kotSent, userVars, page>>

\* DELETE /api/order-items/:id up to the first await of the recalculation:
\* the item is deleted; an unknown id is answered at once.
DeleteItemBegin(r, id) ==
    /\ r \notin DOMAIN reqs
    /\ IF id \notin DOMAIN orderItems
       THEN /\ res' = [op |-> "removeItem", id |-> id, code |-> NotFound]
            /\ UNCHANGED <<orderItems, reqs>>
       ELSE /\ orderItems' = MapDelete(orderItems, id)
            /\ reqs' = MapSet(reqs, r, Recalculating(orderItems[id].orderId,
                           [op |-> "removeItem", id |-> id, code |-> NoContent]))
            /\ UNCHANGED res
    /\ UNCHANGED <<orders, currentOrderId, currentOrderItemId, clock>>
    /\ UNCHANGED <<menuVars, paidBefore, kotSent, userVars, page>>

\* recalculateOrderTotal resumes with the order: without one it returns and
\* the route answers; otherwise it calls getOrderItems, which reads the
\* items of the order, and awaits them.
RecalcGotOrder(r) ==
    /\ r \in DOMAIN reqs
    /\ reqs[r].op \in {"addItem", "updateQuantity", "removeItem"}
    /\ reqs[r].pc = "getOrder"
    /\ IF reqs[r].order = <<>>
       THEN /\ res' = reqs[r].response
            /\ reqs' = MapDelete(reqs, r)
       ELSE /\ reqs' = MapSet(reqs, r,
                          Spread(reqs[r], [pc |-> "getOrderItems",
                                           items |-> getOrderItems(orderItems, reqs[r].orderId)]))
            /\ UNCHANGED res
    /\ UNCHANGED <<orders, orderItems, currentOrderId, currentOrderItemId, clock>>
    /\ UNCHANGED <<menuVars, paidBefore, kotSent, userVars, page>>

\* recalculateOrderTotal resuming with the items and writing the totals into
\* the order as it was read, not as it is stored now.
RecalcGotItemsIntoRead(r) ==
    /\ r \in DOMAIN reqs
    /\ reqs[r].op \in {"addItem", "updateQuantity", "removeItem"}
    /\ reqs[r].pc = "getOrderItems"
    /\ LET subtotal    == SumLines(reqs[r].items)
           tax         == (subtotal * TaxPercent) \div 100
           totalAmount == subtotal + tax + FeeOf(reqs[r].order[1])
       IN  orders' = MapSet(orders, reqs[r].orderId,
                            Spread(reqs[r].order[1],
                                   [subtotal |-> subtotal, tax |-> tax,
                                    totalAmount |-> totalAmount, updatedAt |-> clock]))
    /\ res' = reqs[r].response
    /\ reqs' = MapDelete(reqs, r)
    /\ UNCHANGED <<orderItems, currentOrderId, currentOrderItemId, clock>>
    /\ UNCHANGED <<menuVars, paidBefore, kotSent, userVars, page>>

\* recalculateOrderTotal resumes with the items: the totals are computed
\* from them and from the order that was read, and written with
\* updateOrder; the route answers.
RecalcGotItems(r) ==
    /\ r \in DOMAIN reqs
    /\ reqs[r].op \in {"addItem", "updateQuantity", "removeItem"}
    /\ reqs[r].pc = "getOrderItems"
    /\ LET subtotal    == SumLines(reqs[r].items)
           tax         == (subtotal * TaxPercent) \div 100
           totalAmount == subtotal + tax + FeeOf(reqs[r].order[1])
       IN  orders' = updateOrder(orders, reqs[r].orderId,
                                 [subtotal |-> subtotal, tax |-> tax,
                                  totalAmount |-> totalAmount], clock)
    /\ res' = reqs[r].response
    /\ reqs' = MapDelete(reqs, r)
    /\ UNCHANGED <<orderItems, currentOrderId, currentOrderItemId, clock>>
    /\ UNCHANGED <<menuVars, paidBefore, kotSent, userVars, page>>

----------------------------------------------------------------------------
\* GET /api/menu-items
GetMenuItems ==
    /\ res' = [op |-> "getAllMenuItems", id |-> 0, code |-> Ok,
               menuItems |-> getAllMenuItems(menuItems, menuItemFiles)]
    /\ UNCHANGED <<orders, orderItems, currentOrderId, currentOrderItemId, clock>>
    /\ UNCHANGED <<menuVars, reqs, paidBefore, kotSent, userVars, page>>

\* GET /api/menu-items/category/:categoryId
GetMenuItemsByCategory(categoryId) ==
    /\ res' = [op |-> "getMenuItemsByCategory", id |-> categoryId, code |-> Ok,
               menuItems |-> getMenuItemsByCategory(menuItems, menuItemFiles, categoryId)]
    /\ UNCHANGED <<orders, orderItems, currentOrderId, currentOrderItemId, clock>>
    /\ UNCHANGED <<menuVars, reqs, paidBefore, kotSent, userVars, page>>

\* POST /api/menu-items, with LocalIntegratedStorage.createMenuItem; the
\* write of the file succeeds (mirrorOk) or throws.
PostMenuItem(body, mirrorOk) ==
    /\ currentMenuItemId <= MaxMenuItems
    /\ LET id == currentMenuItemId
           ms == createMenuItem(menuItems, id, body)
       IN  /\ currentMenuItemId' = id + 1
           /\ menuItems' = ms
           /\ IF mirrorOk
              THEN /\ menuItemFiles' = saveMenuItem(menuItemFiles, id, ms[id])
                   /\ res' = [op |-> "createMenuItem", id |-> id, code |-> Created,
                              item |-> ms[id]]
              ELSE /\ UNCHANGED menuItemFiles
                   /\ res' = [op |-> "createMenuItem", id |-> id, code |-> ServerError]
    /\ UNCHANGED <<orders, orderItems, currentOrderId, currentOrderItemId, clock>>
    /\ UNCHANGED <<reqs, paidBefore, kotSent, userVars, page>>

\* PUT /api/menu-items/:id, with LocalIntegratedStorage.updateMenuItem; when
\* the write of the file throws, the update is applied to the memory once
\* more and its result returned.
PutMenuItem(id, body, mirrorOk) ==
    /\ LET ms == updateMenuItem(menuItems, id, body)
       IN  IF id \notin DOMAIN menuItems
           THEN /\ res' = [op |-> "updateMenuItem", id |-> id, code |-> NotFound]
                /\ UNCHANGED <<menuItems, menuItemFiles>>
           ELSE IF mirrorOk
           THEN /\ menuItems' = ms
                /\ menuItemFiles' = saveMenuItem(menuItemFiles, id, ms[id])
                /\ res' = [op |-> "updateMenuItem", id |-> id, code |-> Ok, item |-> ms[id]]
           ELSE LET again == updateMenuItem(ms, id, body)
                IN  /\ menuItems' = again
                    /\ UNCHANGED menuItemFiles
                    /\ res' = [op |-> "updateMenuItem", id |-> id, code |-> Ok,
                               item |-> again[id]]
    /\ UNCHANGED <<orders, orderItems, currentOrderId, currentOrderItemId, clock>>
    /\ UNCHANGED <<currentMenuItemId, reqs, paidBefore, kotSent, userVars, page>>

\* POST /api/menu-items/:id/toggle, with LocalIntegratedStorage.toggleMenuItem;
\* when the write of the file throws, the item is toggled in memory once
\* more and that result returned.
ToggleMenuItem(id, mirrorOk) ==
    /\ LET ms == toggleMenuItem(menuItems, id)
       IN  IF id \notin DOMAIN menuItems
           THEN /\ res' = [op |-> "toggleMenuItem", id |-> id, code |-> NotFound]
                /\ UNCHANGED <<menuItems, menuItemFiles>>
           ELSE IF mirrorOk
           THEN /\ menuItems' = ms
                /\ menuItemFiles' = saveMenuItem(menuItemFiles, id, ms[id])
                /\ res' = [op |-> "toggleMenuItem", id |-> id, code |-> Ok, item |-> ms[id]]
           ELSE LET again == toggleMenuItem(ms, id)
                IN  /\ menuItems' = again
                    /\ UNCHANGED menuItemFiles
                    /\ res' = [op |-> "toggleMenuItem", id |-> id, code |-> Ok,
                               item |-> again[id]]
    /\ UNCHANGED <<orders, orderItems, currentOrderId, currentOrderItemId, clock>>
    /\ UNCHANGED <<currentMenuItemId, reqs, paidBefore, kotSent, userVars, page>>

\* GET /api/orders
GetOrders ==
    /\ res' = [op |-> "listOrders", id |-> 0, code |-> Ok, orders |-> getAllOrders(orders)]
    /\ UNCHANGED <<orders, orderItems, currentOrderId, currentOrderItemId, clock>>
    /\ UNCHANGED <<menuVars, reqs, paidBefore, kotSent, userVars, page>>

\* POST /api/orders/report
PostReport(filters) ==
    /\ LET startDate      == filters.startDate
           endDate        == EndOfDay(filters.endDate)
           ranged         == getOrdersByDateRange(orders, startDate, endDate)
           filteredOrders == IF filters.paymentMethod # "all"
                             THEN SelectSeq(ranged, LAMBDA order :
                                      Has(order, "paymentMethod")
                                      /\ order.paymentMethod = filters.paymentMethod)
                             ELSE ranged
       IN  res' = [op |-> "report", id |-> 0, code |-> Ok, orders |-> filteredOrders]
    /\ UNCHANGED <<orders, orderItems, currentOrderId, currentOrderItemId, clock>>
    /\ UNCHANGED <<menuVars, reqs, paidBefore, kotSent, userVars, page>>

\* GET /api/orders/:id
GetOrder(id) ==
    /\ res' = IF id \in DOMAIN orders
              THEN [op |-> "getOrder", id |-> id, code |-> Ok, order |-> orders[id]]
              ELSE [op |-> "getOrder", id |-> id, code |-> NotFound]
    /\ UNCHANGED <<orders, orderItems, currentOrderId, currentOrderItemId, clock>>
    /\ UNCHANGED <<menuVars, reqs, paidBefore, kotSent, userVars, page>>

\* The KOT answers so far, with one more that lists kotItems.
Sent(sent, kotItems) ==
    LET ids == {item.id : item \in kotItems}
    IN  [once |-> sent.once \cup ids, again |-> sent.again \cup (sent.once \cap ids)]

\* GET /api/kot/:orderId that marks every item of the order, pending or not.
GetKotMarksAll(orderId) ==
    /\ IF orderId \notin DOMAIN orders
       THEN /\ res' = [op |-> "printKOT", id |-> orderId, code |-> NotFound]
            /\ UNCHANGED orderItems
       ELSE LET items        == getOrderItems(orderItems, orderId)
                pendingItems == PendingItems(items)
                its          == updateAll(orderItems, items, "kot_printed")
            IN  /\ orderItems' = its
                /\ res' = [op |-> "printKOT", id |-> orderId, code |-> Ok,
                           order |-> orders[orderId], kotItems |-> pendingItems,
                           allItems |-> getOrderItems(its, orderId)]
    /\ UNCHANGED <<orders, currentOrderId, currentOrderItemId, clock>>
    /\ kotSent' = IF res'.code = Ok THEN Sent(kotSent, res'.kotItems) ELSE kotSent
    /\ UNCHANGED <<menuVars, reqs, paidBefore, userVars, page>>

\* GET /api/kot/:orderId
GetKot(orderId) ==
    /\ IF orderId \notin DOMAIN orders
       THEN /\ res' = [op |-> "printKOT", id |-> orderId, code |-> NotFound]
            /\ UNCHANGED orderItems
       ELSE LET items        == getOrderItems(orderItems, orderId)
                pendingItems == PendingItems(items)
                its          == updateAll(orderItems, pendingItems, "kot_printed")
            IN  /\ orderItems' = its
                /\ res' = [op |-> "printKOT", id |-> orderId, code |-> Ok,
                           order |-> orders[orderId], kotItems |-> pendingItems,
                           allItems |-> getOrderItems(its, orderId)]
    /\ UNCHANGED <<orders, currentOrderId, currentOrderItemId, clock>>
    /\ kotSent' = IF res'.code = Ok THEN Sent(kotSent, res'.kotItems) ELSE kotSent
    /\ UNCHANGED <<menuVars, reqs, paidBefore, userVars, page>>

\* GET /api/bill/:orderId without the check for pending items.
GetBillUnchecked(orderId) ==
    /\ IF orderId \notin DOMAIN orders
       THEN /\ res' = [op |-> "printBill", id |-> orderId, code |-> NotFound]
            /\ UNCHANGED orderItems
       ELSE LET items == getOrderItems(orderItems, orderId)
                its   == updateAll(orderItems, items, "completed")
            IN  /\ orderItems' = its
                /\ res' = [op |-> "printBill", id |-> orderId, code |-> Ok,
                           order |-> orders[orderId],
                           items |-> getOrderItems(its, orderId)]
    /\ UNCHANGED <<orders, currentOrderId, currentOrderItemId, clock>>
    /\ UNCHANGED <<menuVars, reqs, paidBefore, kotSent, userVars, page>>

\* GET /api/bill/:orderId
GetBill(orderId) ==
    /\ IF orderId \notin DOMAIN orders
       THEN /\ res' = [op |-> "printBill", id |-> orderId, code |-> NotFound]
            /\ UNCHANGED orderItems
       ELSE LET items        == getOrderItems(orderItems, orderId)
                pendingItems == PendingItems(items)
                its          == updateAll(orderItems, items, "completed")
            IN  IF pendingItems # {}
                THEN /\ res' = [op |-> "printBill", id |-> orderId, code |-> BadRequest]
                     /\ UNCHANGED orderItems
                ELSE /\ orderItems' = its
                     /\ res' = [op |-> "printBill", id |-> orderId, code |-> Ok,
                                order |-> orders[orderId],
                                items |-> getOrderItems(its, orderId)]
    /\ UNCHANGED <<orders, currentOrderId, currentOrderItemId, clock>>
    /\ UNCHANGED <<menuVars, reqs, paidBefore, kotSent, userVars, page>>

\* POST /api/register up to `await storage.getUserByUsername(...)`: the
\* users are searched for the name.
RegisterBegin(r, body) ==
    /\ r \notin DOMAIN reqs
    /\ currentUserId + Cardinality(InFlight("register")) <= MaxUsers
    /\ reqs' = MapSet(reqs, r, [op |-> "register", pc |-> "getUserByUsername",
                                body |-> body,
                                existingUser |-> getUserByUsername(users, body.username)])
    /\ UNCHANGED <<orders, orderItems, currentOrderId, currentOrderItemId, clock, res>>
    /\ UNCHANGED <<menuVars, paidBefore, kotSent, userVars, page>>

\* POST /api/register resumes with the result of the search: with a user it
\* answers 400, without one it calls hashPassword and awaits the hash.
RegisterGotUser(r) ==
    /\ r \in DOMAIN reqs
    /\ reqs[r].op = "register"
    /\ reqs[r].pc = "getUserByUsername"
    /\ IF reqs[r].existingUser # <<>>
       THEN /\ res' = [op |-> "register", id |-> 0, code |-> BadRequest]
            /\ reqs' = MapDelete(reqs, r)
       ELSE /\ reqs' = MapSet(reqs, r, Spread(reqs[r], [pc |-> "hashPassword"]))
            /\ UNCHANGED res
    /\ UNCHANGED <<orders, orderItems, currentOrderId, currentOrderItemId, clock>>
    /\ UNCHANGED <<menuVars, paidBefore, kotSent, userVars, page>>

\* POST /api/register resumes with the hash: the user is created with it
\* and answered, without the password.
RegisterHashed(r) ==
    /\ r \in DOMAIN reqs
    /\ reqs[r].op = "register"
    /\ reqs[r].pc = "hashPassword"
    /\ LET id == currentUserId
           us == createUser(users, id,
                            Spread(reqs[r].body,
                                   [password |-> hashPassword(reqs[r].body.password)]))
       IN  /\ users' = us
           /\ currentUserId' = id + 1
           /\ res' = [op |-> "register", id |-> id, code |-> Created,
                      user |-> MapDelete(us[id], "password")]
    /\ reqs' = MapDelete(reqs, r)
    /\ UNCHANGED <<orders, orderItems, currentOrderId, currentOrderItemId, clock>>
    /\ UNCHANGED <<menuVars, paidBefore, kotSent, page>>

\* Overlapping print requests.  Each handler runs up to its next await; a
\* storage call reads or writes the maps when it is made, and its result
\* reaches the handler when the handler resumes.

\* A print handler that has called `storage.getOrder(orderId)`, which reads
\* the order, and awaits it.
Printing(op, orderId) ==
    [op |-> op, pc |-> "getOrder", orderId |-> orderId,
     order |-> IF orderId \in DOMAIN orders THEN <<orders[orderId]>> ELSE <<>>,
     items |-> {}]

\* GET /api/kot/:orderId up to `await storage.getOrder(orderId)`.
GetKotBegin(r, orderId) ==
    /\ r \notin DOMAIN reqs
    /\ reqs' = MapSet(reqs, r, Printing("printKOT", orderId))
    /\ UNCHANGED <<orders, orderItems, currentOrderId, currentOrderItemId, clock, res>>
    /\ UNCHANGED <<menuVars, paidBefore, kotSent, userVars, page>>

\* GET /api/bill/:orderId up to `await storage.getOrder(orderId)`.
GetBillBegin(r, orderId) ==
    /\ r \notin DOMAIN reqs
    /\ reqs' = MapSet(reqs, r, Printing("printBill", orderId))
    /\ UNCHANGED <<orders, orderItems, currentOrderId, currentOrderItemId, clock, res>>
    /\ UNCHANGED <<menuVars, paidBefore, kotSent, userVars, page>>

\* Either print handler resumes with the order: without one it answers 404,
\* otherwise it calls getOrderItems, which reads the items of the order, and
\* awaits them.
PrintGotOrder(r) ==
    /\ r \in DOMAIN reqs
    /\ reqs[r].op \in {"printKOT", "printBill"}
    /\ reqs[r].pc = "getOrder"
    /\ IF reqs[r].order = <<>>
       THEN /\ res' = [op |-> reqs[r].op, id |-> reqs[r].orderId, code |-> NotFound]
            /\ reqs' = MapDelete(reqs, r)
       ELSE /\ reqs' = MapSet(reqs, r,
                          Spread(reqs[r], [pc |-> "getOrderItems",
                                           items |-> getOrderItems(orderItems, reqs[r].orderId)]))
            /\ UNCHANGED res
    /\ UNCHANGED <<orders, orderItems, currentOrderId, currentOrderItemId, clock>>
    /\ UNCHANGED <<menuVars, paidBefore, kotSent, userVars, page>>

\* GET /api/kot/:orderId resumes with the items: those that were read as
\* pending are marked kot_printed, whatever their status is now, and the
\* handler awaits the updates.
KotGotItems(r) ==
    /\ r \in DOMAIN reqs
    /\ reqs[r].op = "printKOT"
    /\ reqs[r].pc = "getOrderItems"
    /\ LET pendingItems == PendingItems(reqs[r].items)
       IN  /\ orderItems' = updateAll(orderItems, pendingItems, "kot_printed")
           /\ reqs' = MapSet(reqs, r, Spread(reqs[r], [pc |-> "updated",
                                                       items |-> pendingItems]))
    /\ UNCHANGED <<orders, currentOrderId, currentOrderItemId, clock, res>>
    /\ UNCHANGED <<menuVars, paidBefore, kotSent, userVars, page>>

\* GET /api/kot/:orderId resumes after the updates: the items are read
\* again and answered with the order and the items that were read as
\* pending.
KotUpdated(r) ==
    /\ r \in DOMAIN reqs
    /\ reqs[r].op = "printKOT"
    /\ reqs[r].pc = "updated"
    /\ res' = [op |-> "printKOT", id |-> reqs[r].orderId, code |-> Ok,
               order |-> reqs[r].order[1], kotItems |-> reqs[r].items,
               allItems |-> getOrderItems(orderItems, reqs[r].orderId)]
    /\ reqs' = MapDelete(reqs, r)
    /\ UNCHANGED <<orders, orderItems, currentOrderId, currentOrderItemId, clock>>
    /\ kotSent' = Sent(kotSent, reqs[r].items)
    /\ UNCHANGED <<menuVars, paidBefore, userVars, page>>

\* GET /api/bill/:orderId resumes with the items: with a pending one among
\* them it answers 400, otherwise all of them are marked completed and the
\* handler awaits the updates.
BillGotItems(r) ==
    /\ r \in DOMAIN reqs
    /\ reqs[r].op = "printBill"
    /\ reqs[r].pc = "getOrderItems"
    /\ IF PendingItems(reqs[r].items) # {}
       THEN /\ res' = [op |-> "printBill", id |-> reqs[r].orderId, code |-> BadRequest]
            /\ reqs' = MapDelete(reqs, r)
            /\ UNCHANGED orderItems
       ELSE /\ orderItems' = updateAll(orderItems, reqs[r].items, "completed")
            /\ reqs' = MapSet(reqs, r, Spread(reqs[r], [pc |-> "updated"]))
            /\ UNCHANGED res
    /\ UNCHANGED <<orders, currentOrderId, currentOrderItemId, clock>>
    /\ UNCHANGED <<menuVars, paidBefore, kotSent, userVars, page>>

\* GET /api/bill/:orderId resumes after the updates: the items are read
\* again and answered with the order.
BillUpdated(r) ==
    /\ r \in DOMAIN reqs
    /\ reqs[r].op = "printBill"
    /\ reqs[r].pc = "updated"
    /\ res' = [op |-> "printBill", id |-> reqs[r].orderId, code |-> Ok,
               order |-> reqs[r].order[1],
               items |-> getOrderItems(orderItems, reqs[r].orderId)]
    /\ reqs' = MapDelete(reqs, r)
    /\ UNCHANGED <<orders, orderItems, currentOrderId, currentOrderItemId, clock>>
    /\ UNCHANGED <<menuVars, paidBefore, kotSent, userVars, page>>

----------------------------------------------------------------------------
\* Request bodies.  The routes pass req.body to the storage without
\* validating it.

\* POST /api/orders: the dine-in body of the POS page and the parcel body
\* of the parcel page (with its packaging fee of 20.00).
DineInBody == [orderType |-> "dine_in", tableNumber |-> 3, paymentStatus |-> "unpaid"]
ParcelBody == [orderType |-> "parcel", paymentStatus |-> "unpaid", packagingFee |-> 2000]

\* PUT /api/orders/:id: the "free table" body of the POS page, and a body
\* that sets the packaging fee.
FreeTablePatch == [notes |-> "TABLE FREED - Order canceled", paymentStatus |-> "refunded"]
FeePatch == [packagingFee |-> 2000]

\* POST /api/orders/:orderId/items: two bodies as the client sends them
\* (status "pending"), and a body with another status.
ItemA == [menuItemId |-> 1, quantity |-> 2, price |-> 15000, status |-> "pending"]
ItemB == [menuItemId |-> 2, quantity |-> 1, price |-> 5000, status |-> "pending"]
ItemDone == [menuItemId |-> 2, quantity |-> 1, price |-> 5000, status |-> "completed"]

\* POST /api/orders/:id/payment: { paymentMethod, bankReference, cashAmount,
\* bankAmount }, an optional field being <<>> when the body has none.
PayCash == [paymentMethod |-> "cash", bankReference |-> Undefined,
            cashAmount |-> Undefined, bankAmount |-> Undefined]
PaySplit == [paymentMethod |-> "split", bankReference |-> <<"UTR1">>,
             cashAmount |-> <<6000>>, bankAmount |-> <<4000>>]
PaySplitZero == [paymentMethod |-> "split", bankReference |-> <<"UTR1">>,
                 cashAmount |-> <<0>>, bankAmount |-> <<10000>>]

AllOrderBodies == {DineInBody, ParcelBody}
AllOrderPatches == {FreeTablePatch, FeePatch}
AllItemBodies == {ItemA, ItemB, ItemDone}
AllPaymentBodies == {PayCash, PaySplit, PaySplitZero}
Statuses == {"pending", "kot_printed", "completed"}
Times == 0..MaxClock
MenuBody == [name |-> "Paneer Tikka", price |-> 15000, categoryId |-> 1, isActive |-> TRUE]
MenuPatch == [price |-> 18000]

\* The body createOrderMutation posts for table 1.
PageOrderBody == [orderType |-> "dine_in", tableNumber |-> 1, paymentStatus |-> "unpaid"]

\* Bodies that carry an id of their own.
OrderBodyWithId == [orderType |-> "dine_in", tableNumber |-> 5,
                    paymentStatus |-> "unpaid", id |-> 7]
ItemWithId == [menuItemId |-> 1, quantity |-> 1, price |-> 15000,
               status |-> "pending", id |-> 7]

\* POST /api/register: { username, password, displayName, role }
AdminBody == [username |-> "admin", password |-> "admin123",
              displayName |-> "Admin", role |-> "admin"]
StaffBody == [username |-> "staff", password |-> "staff123",
              displayName |-> "Staff", role |-> "staff"]
AllUserBodies == {AdminBody, StaffBody}

\* The category of MenuBody and one without items.
CategoryIds == {MenuBody.categoryId, MenuBody.categoryId + 1}
AllReportFilters ==
    [startDate : Times, endDate : Times, paymentMethod : {"all", "cash"}]
Quantities == {1, 2}

----------------------------------------------------------------------------
\* The POS page (client/src/pages/pos-page.tsx).  A render of the component
\* holds currentOrderId as a constant; a callback created in a render keeps
\* the value of that render.

\* handleAddToOrder(itemId, quantity, ...): without a current order
\* createOrderMutation.mutate() is called and a timer is set whose callback
\* holds the currentOrderId of this render; with one,
\* addItemMutation.mutate(...) is called.  One gesture at a time.
HandleAddToOrder(itemId, quantity) ==
    /\ ~page.creating /\ page.timer = <<>> /\ page.adding = <<>>
    /\ IF page.currentOrderId = Undefined
       THEN /\ currentOrderId <= MaxOrders
            /\ page' = [page EXCEPT
                           !.creating = TRUE,
                           !.timer = <<[currentOrderId |-> page.currentOrderId,
                                        menuItemId |-> itemId, quantity |-> quantity]>>,
                           !.asked = <<[menuItemId |-> itemId, quantity |-> quantity]>>]
       ELSE page' = [page EXCEPT
                        !.adding = <<[menuItemId |-> itemId, quantity |-> quantity]>>]
    /\ UNCHANGED <<orders, orderItems, currentOrderId, currentOrderItemId, clock, res>>
    /\ UNCHANGED <<menuVars, reqs, paidBefore, kotSent, userVars>>

\* createOrderMutation: POST /api/orders with the table's body is handled,
\* and onSuccess sets currentOrderId to the id of the answer.
CreateOrderMutationDone ==
    /\ page.creating
    /\ LET allOrders   == Values(orders)
           orderNumber == OrderNumberBase + Cardinality(allOrders) + 1
           orderData   == Spread(PageOrderBody, [orderNumber |-> orderNumber])
           id          == currentOrderId
           os          == createOrder(orders, id, orderData, clock)
       IN  /\ orders' = os
           /\ currentOrderId' = id + 1
           /\ res' = [op |-> "createOrder", id |-> id, code |-> Created, order |-> os[id]]
           /\ page' = [page EXCEPT !.creating = FALSE, !.currentOrderId = <<id>>]
    /\ UNCHANGED <<orderItems, currentOrderItemId, clock>>
    /\ UNCHANGED <<menuVars, reqs, paidBefore, kotSent, userVars>>

\* The callback of setTimeout(..., 500): when the currentOrderId it holds is
\* set, addItemMutation.mutate(...) is called.
TimerFires ==
    /\ page.timer # <<>>
    /\ LET callback == page.timer[1]
       IN  page' = [page EXCEPT
                       !.timer = <<>>,
                       !.adding = IF callback.currentOrderId # Undefined
                                  THEN <<[menuItemId |-> callback.menuItemId,
                                          quantity |-> callback.quantity]>>
                                  ELSE page.adding]
    /\ UNCHANGED <<orders, orderItems, currentOrderId, currentOrderItemId, clock, res>>
    /\ UNCHANGED <<menuVars, reqs, paidBefore, kotSent, userVars>>

\* addItemMutation: it throws without a current order or when the details
\* of the menu item cannot be fetched (gotMenuItem is whether they can);
\* otherwise POST /api/orders/:orderId/items with the item, pending, is
\* handled.
AddItemMutationDone(gotMenuItem) ==
    /\ page.adding # <<>>
    /\ page' = [page EXCEPT !.adding = <<>>]
    /\ IF page.currentOrderId = Undefined \/ ~gotMenuItem
       THEN UNCHANGED <<orders, orderItems, currentOrderItemId, res>>
       ELSE /\ currentOrderItemId <= MaxItems
            /\ LET orderId  == page.currentOrderId[1]
                   itemData == [menuItemId |-> page.adding[1].menuItemId,
                                menuItemName |-> MenuBody.name,
                                quantity |-> page.adding[1].quantity,
                                price |-> MenuBody.price, status |-> "pending",
                                specialInstructions |-> "", orderId |-> orderId]
                   id       == currentOrderItemId
                   newItem  == newOrderItem(id, itemData, clock)
                   its      == MapSet(orderItems, id, newItem)
               IN  /\ currentOrderItemId' = id + 1
                   /\ orderItems' = its
                   /\ orders' = recalculateOrderTotal(orders, its, orderId, clock)
                   /\ res' = [op |-> "addItem", id |-> orderId, code |-> Created,
                              item |-> newItem]
    /\ UNCHANGED <<currentOrderId, clock>>
    /\ UNCHANGED <<menuVars, reqs, paidBefore, kotSent, userVars>>

----------------------------------------------------------------------------
\* The whole server: every route, under every request body above, while
\* time passes.
Next ==
    \/ Tick
    \/ \E body \in AllOrderBodies : PostOrders(body)
    \/ \E id \in OrderIds, body \in AllOrderPatches : PutOrder(id, body)
    \/ \E id \in OrderIds, body \in AllPaymentBodies : PostPayment(id, body)
    \/ \E orderId \in OrderIds, body \in AllItemBodies : PostItem(orderId, body)
    \/ \E id \in ItemIds, status \in Statuses : PutItemStatus(id, status)
    \/ \E id \in ItemIds, quantity \in Quantities : PutItemQuantity(id, quantity)
    \/ \E id \in ItemIds : DeleteItem(id)
    \/ \E orderId \in OrderIds : GetKot(orderId)
    \/ \E orderId \in OrderIds : GetBill(orderId)
    \/ \E id \in OrderIds : GetOrder(id)
    \/ GetOrders
    \/ \E filters \in AllReportFilters : PostReport(filters)
    \/ GetMenuItems
    \/ \E mirrorOk \in BOOLEAN : PostMenuItem(MenuBody, mirrorOk)
    \/ \E id \in MenuItemIds, mirrorOk \in BOOLEAN : PutMenuItem(id, MenuPatch, mirrorOk)
    \/ \E id \in MenuItemIds, mirrorOk \in BOOLEAN : ToggleMenuItem(id, mirrorOk)
    \/ \E categoryId \in CategoryIds : GetMenuItemsByCategory(categoryId)

Spec == Init /\ [][Next]_vars

\* The server under a client that enters orders: it creates dine-in and
\* parcel orders, and adds, changes and removes items.
NextBilling ==
    \/ \E body \in AllOrderBodies : PostOrders(body)
    \/ \E orderId \in OrderIds, body \in {ItemA, ItemB} : PostItem(orderId, body)
    \/ \E id \in ItemIds, quantity \in Quantities : PutItemQuantity(id, quantity)
    \/ \E id \in ItemIds : DeleteItem(id)

SpecBilling == Init /\ [][NextBilling]_vars

\* The server under a client that moves items through their lifecycle:
\* items are added, their status is set, the KOT and the bill are printed.
NextLifecycle ==
    \/ PostOrders(DineInBody)
    \/ \E orderId \in OrderIds, body \in {ItemB, ItemDone} : PostItem(orderId, body)
    \/ \E id \in ItemIds, status \in Statuses : PutItemStatus(id, status)
    \/ \E orderId \in OrderIds : GetKot(orderId)
    \/ \E orderId \in OrderIds : GetBill(orderId)

SpecLifecycle == Init /\ [][NextLifecycle]_vars

\* The server under the client of the POS page serving dine-in tables:
\* order, items, KOT, bill, cash settlement.
NextScenario ==
    \/ PostOrders(DineInBody)
    \/ \E orderId \in OrderIds, body \in {ItemA, ItemB} : PostItem(orderId, body)
    \/ \E orderId \in OrderIds : GetKot(orderId)
    \/ \E orderId \in OrderIds : GetBill(orderId)
    \/ \E id \in OrderIds : PostPayment(id, PayCash)

SpecScenario == Init /\ [][NextScenario]_vars

\* The server under a client that settles, edits and frees orders.
NextPayment ==
    \/ PostOrders(DineInBody)
    \/ \E orderId \in OrderIds : PostItem(orderId, ItemA)
    \/ \E id \in OrderIds, body \in AllPaymentBodies : PostPayment(id, body)
    \/ \E id \in OrderIds, body \in AllOrderPatches : PutOrder(id, body)

SpecPayment == Init /\ [][NextPayment]_vars

\* The server under a client that settles orders, and settles them again,
\* as time passes.
NextResettle ==
    \/ Tick
    \/ PostOrders(DineInBody)
    \/ \E id \in OrderIds, body \in AllPaymentBodies : PostPayment(id, body)

SpecResettle == Init /\ [][NextResettle]_vars

\* The server under a client that takes orders over the days, settles the
\* first of them in cash, and asks for the list of orders and for sales
\* reports.
NextReports ==
    \/ Tick
    \/ PostOrdersListed(DineInBody)
    \/ PostPayment(1, PayCash)
    \/ GetOrders
    \/ \E filters \in AllReportFilters : PostReport(filters)

SpecReports == Init /\ [][NextReports]_vars

\* The server under a client that edits and reads the menu, while the
\* writes of the menu files succeed or fail.
NextMenu ==
    \/ GetMenuItems
    \/ \E mirrorOk \in BOOLEAN : PostMenuItem(MenuBody, mirrorOk)
    \/ \E id \in MenuItemIds, mirrorOk \in BOOLEAN : PutMenuItem(id, MenuPatch, mirrorOk)
    \/ \E id \in MenuItemIds, mirrorOk \in BOOLEAN : ToggleMenuItem(id, mirrorOk)
    \/ \E categoryId \in CategoryIds : GetMenuItemsByCategory(categoryId)

SpecMenu == Init /\ [][NextMenu]_vars

\* The server under clients whose requests for new orders overlap.
NextConcurrentCreate ==
    \/ \E r \in Requests, body \in AllOrderBodies : PostOrdersRead(r, body)
    \/ \E r \in Requests : PostOrdersCreate(r)

SpecConcurrentCreate == Init /\ [][NextConcurrentCreate]_vars

\* The server under clients whose requests to add, resize and remove the
\* items of an order overlap.
NextConcurrentItems ==
    \/ PostOrders(DineInBody)
    \/ \E r \in Requests, orderId \in OrderIds : PostItemBegin(r, orderId, ItemB)
    \/ \E r \in Requests, id \in ItemIds : PutItemQuantityBegin(r, id, 2)
    \/ \E r \in Requests, id \in ItemIds : DeleteItemBegin(r, id)
    \/ \E r \in Requests : RecalcGotOrder(r)
    \/ \E r \in Requests : RecalcGotItems(r)

SpecConcurrentItems == Init /\ [][NextConcurrentItems]_vars

\* addItem, printKOT and printBill on one order, overlapping.
NextConcurrentPrint ==
    \/ PostOrders(DineInBody)
    \/ \E r \in Requests : PostItemBegin(r, 1, ItemB)
    \/ \E r \in Requests : RecalcGotOrder(r)
    \/ \E r \in Requests : RecalcGotItems(r)
    \/ \E r \in Requests : GetKotBegin(r, 1)
    \/ \E r \in Requests : GetBillBegin(r, 1)
    \/ \E r \in Requests : PrintGotOrder(r)
    \/ \E r \in Requests : KotGotItems(r)
    \/ \E r \in Requests : KotUpdated(r)
    \/ \E r \in Requests : BillGotItems(r)
    \/ \E r \in Requests : BillUpdated(r)

SpecConcurrentPrint == Init /\ [][NextConcurrentPrint]_vars

\* One settlement of a parcel order and item mutations on it, one mutation
\* at a time, overlapping the settlement.
NextConcurrentSettle ==
    \/ PostOrders(ParcelBody)
    \/ reqs = <<>> /\ PostItemBegin(1, 1, ItemB)
    \/ reqs = <<>> /\ \E id \in ItemIds : PutItemQuantityBegin(1, id, 2)
    \/ reqs = <<>> /\ \E id \in ItemIds : DeleteItemBegin(1, id)
    \/ RecalcGotOrder(1)
    \/ RecalcGotItems(1)
    \/ PostPayment(1, PaySplit)

SpecConcurrentSettle == Init /\ [][NextConcurrentSettle]_vars

\* Register requests, overlapping.
NextRegister ==
    \/ \E r \in Requests, body \in AllUserBodies : RegisterBegin(r, body)
    \/ \E r \in Requests : RegisterGotUser(r)
    \/ \E r \in Requests : RegisterHashed(r)

SpecRegister == Init /\ [][NextRegister]_vars

\* Creations of orders, additions and removals of items, with bodies that
\* carry an id; an addition and a removal may overlap.
NextIds ==
    \/ PostOrders(OrderBodyWithId)
    \/ PostItemBegin(1, 1, ItemWithId)
    \/ \E id \in ItemIds : DeleteItemBegin(2, id)
    \/ \E r \in Requests : RecalcGotOrder(r)
    \/ \E r \in Requests : RecalcGotItems(r)

SpecIds == Init /\ [][NextIds]_vars

\* A parcel order with items: status changes, prints and a settlement.
NextFrame ==
    \/ PostOrders(ParcelBody)
    \/ PostItem(1, ItemB)
    \/ \E id \in ItemIds : PutItemStatus(id, "pending")
    \/ GetKot(1)
    \/ GetBill(1)
    \/ PostPayment(1, PaySplit)

SpecFrame == Init /\ [][NextFrame]_vars

\* The POS page adding items; a mutation in flight completes and a timer
\* that is set fires.
NextPosPage ==
    \/ \E itemId \in MenuItemIds, quantity \in Quantities : HandleAddToOrder(itemId, quantity)
    \/ CreateOrderMutationDone
    \/ TimerFires
    \/ \E gotMenuItem \in BOOLEAN : AddItemMutationDone(gotMenuItem)

SpecPosPage ==
    /\ Init /\ [][NextPosPage]_vars
    /\ WF_vars(CreateOrderMutationDone)
    /\ WF_vars(TimerFires)
    /\ WF_vars(\E gotMenuItem \in BOOLEAN : AddItemMutationDone(gotMenuItem))

----------------------------------------------------------------------------
\* What the properties below read off the store.

\* The keys of the stored items of order o.
ItemKeys(its, o) == {k \in DOMAIN its : its[k].orderId = o}

RECURSIVE LineSum(_, _)
\* The sum of price x quantity over the items stored under keys.
LineSum(its, keys) ==
    IF keys = {} THEN 0
    ELSE LET k == CHOOSE x \in keys : TRUE
         IN  its[k].price * its[k].quantity + LineSum(its, keys \ {k})

\* The order's packaging fee, 0 when it has none.
Fee(order) == IF "packagingFee" \in DOMAIN order THEN order.packagingFee ELSE 0

HasTotals(order) == {"subtotal", "tax", "totalAmount"} \subseteq DOMAIN order

\* total = subtotal + tax + fee and tax = 5% of subtotal.
TotalsAddUp(order) ==
    /\ HasTotals(order)
    /\ order.tax * 100 = order.subtotal * 5
    /\ order.totalAmount = order.subtotal + order.tax + Fee(order)

\* The totals of order o are those of its current items.
TotalsMatch(os, its, o) ==
    /\ TotalsAddUp(os[o])
    /\ os[o].subtotal = LineSum(its, ItemKeys(its, o))

\* The step is a request of the given kind being answered.
Answered(op) == res'.op = op /\ clock' = clock

\* The step is an item of order o being added, changed in quantity or
\* removed.
ItemMutation(o) ==
    \/ Answered("addItem") /\ res'.id = o
    \/ Answered("updateQuantity") /\ res'.code = Ok /\ res'.item.orderId = o
    \/ Answered("removeItem") /\ res'.code = NoContent /\ orderItems[res'.id].orderId = o

\* C1: after every addItem, updateQuantity and removeItem on an existing
\* order, the order's subtotal is the sum of price x quantity over its
\* current items, its tax is 5% of the subtotal, and its total is
\* subtotal + tax + packaging fee.
C1_TotalsAfterEachMutation ==
    [][\A o \in DOMAIN orders : ItemMutation(o) => TotalsMatch(orders', orderItems', o)]_vars

\* A parcel order (fee 20.00) right after one of its two items was removed.
C1_Witness ==
    \E o \in DOMAIN orders :
        /\ res.op = "removeItem" /\ res.code = NoContent
        /\ Cardinality(ItemKeys(orderItems, o)) = 1
        /\ Fee(orders[o]) = 2000
        /\ HasTotals(orders[o])
        /\ orders[o].subtotal = 30000
        /\ orders[o].totalAmount = 33500

\* The items of order o are exactly n items, all of the given status, those
\* of the given prices and quantities.
ItemsAre(its, o, lines, status) ==
    /\ Cardinality(ItemKeys(its, o)) = Cardinality(lines)
    /\ {<<its[k].price, its[k].quantity>> : k \in ItemKeys(its, o)} = lines
    /\ \A k \in ItemKeys(its, o) : its[k].status = status

FirstLine == {<<15000, 2>>}
BothLines == {<<15000, 2>>, <<5000, 1>>}

ScenarioStep(o) ==
    /\ ( /\ Answered("addItem") /\ res'.id = o
         /\ ItemKeys(orderItems, o) = {}
         /\ res'.item.price = 15000 /\ res'.item.quantity = 2
         => /\ HasTotals(orders'[o])
            /\ orders'[o].subtotal = 30000
            /\ orders'[o].tax = 1500
            /\ orders'[o].totalAmount = 31500 )
    /\ ( /\ Answered("addItem") /\ res'.id = o
         /\ ItemsAre(orderItems, o, FirstLine, "pending")
         /\ res'.item.price = 5000 /\ res'.item.quantity = 1
         => /\ HasTotals(orders'[o])
            /\ orders'[o].subtotal = 35000
            /\ orders'[o].tax = 1750
            /\ orders'[o].totalAmount = 36750 )
    /\ ( /\ Answered("printKOT") /\ res'.id = o
         /\ ItemsAre(orderItems, o, BothLines, "pending")
         => ItemsAre(orderItems', o, BothLines, "kot_printed") )
    /\ ( /\ Answered("printBill") /\ res'.id = o
         /\ ItemsAre(orderItems, o, BothLines, "kot_printed")
         => res'.code = Ok /\ ItemsAre(orderItems', o, BothLines, "completed") )
    /\ ( /\ Answered("settlePayment") /\ res'.id = o
         /\ ItemsAre(orderItems, o, BothLines, "completed")
         => /\ res'.code = Ok
            /\ orders'[o].paymentStatus = "paid"
            /\ orders'[o].paymentMethod = "cash" )

\* C2: the lifecycle scenario.  On a dine-in order, adding an item of price
\* 150.00 and quantity 2 gives subtotal 300.00, tax 15.00 and total 315.00;
\* adding an item of price 50 and quantity 1 gives 350.00, 17.50 and 367.50;
\* printKOT then leaves both items kot_printed, printBill then leaves both
\* completed, and settling in cash then leaves the order paid.
C2_LifecycleScenario ==
    [][\A o \in DOMAIN orders : orders[o].orderType = "dine_in" => ScenarioStep(o)]_vars

\* The end of the scenario: the order settled in cash, both items completed.
C2_Witness ==
    /\ res.op = "settlePayment" /\ res.code = Ok
    /\ orders[res.id].orderType = "dine_in"
    /\ orders[res.id].paymentStatus = "paid"
    /\ orders[res.id].paymentMethod = "cash"
    /\ ItemsAre(orderItems, res.id, BothLines, "completed")
    /\ orders[res.id].totalAmount = 36750

\* C3: an order that has undergone an item mutation (only the recalculation
\* gives an order its totals) satisfies total = subtotal + tax + fee and
\* tax = 5% of subtotal in every later state, whatever requests follow.
C3_TotalsAddUpForever ==
    \A o \in DOMAIN orders : HasTotals(orders[o]) => TotalsAddUp(orders[o])

\* C4: printBill on an existing order with a pending item answers with the
\* conflict (HTTP 400) and changes no item; with no pending item it
\* succeeds, every item of the order is completed, and the answer holds
\* all the items of the order.
C4_PrintBill ==
    [][\A o \in DOMAIN orders :
          Answered("printBill") /\ res'.id = o =>
            IF \E k \in ItemKeys(orderItems, o) : orderItems[k].status = "pending"
            THEN res'.code = BadRequest /\ orderItems' = orderItems
            ELSE /\ res'.code = Ok
                 /\ DOMAIN orderItems' = DOMAIN orderItems
                 /\ \A k \in ItemKeys(orderItems, o) :
                        orderItems'[k] = [orderItems[k] EXCEPT !.status = "completed"]
                 /\ res'.items = {orderItems'[k] : k \in ItemKeys(orderItems, o)}]_vars

\* A bill refused for an order that holds a pending and a printed item.
C4_Witness ==
    /\ res.op = "printBill" /\ res.code = BadRequest
    /\ \E k \in ItemKeys(orderItems, res.id) : orderItems[k].status = "pending"
    /\ \E k \in ItemKeys(orderItems, res.id) : orderItems[k].status = "kot_printed"

\* C5: printKOT sets the pending items of its order to kot_printed and
\* changes nothing else: not the other items of the order, not the items of
\* other orders, not the orders; a printKOT that follows a printKOT of the
\* same order at once changes nothing and answers with no pending item.
C5_PrintKotOnlyPending ==
    [][\A o \in DOMAIN orders :
          Answered("printKOT") /\ res'.id = o =>
            /\ orders' = orders
            /\ DOMAIN orderItems' = DOMAIN orderItems
            /\ \A k \in DOMAIN orderItems :
                 orderItems'[k] =
                   IF orderItems[k].orderId = o /\ orderItems[k].status = "pending"
                   THEN [orderItems[k] EXCEPT !.status = "kot_printed"]
                   ELSE orderItems[k]
            /\ ( res.op = "printKOT" /\ res.id = o
                 => orderItems' = orderItems /\ res'.kotItems = {} )]_vars

\* A second printKOT in a row, on an order with a printed item, while a
\* pending item of another order stays pending.
C5_Witness ==
    /\ res.op = "printKOT" /\ res.code = Ok /\ res.kotItems = {}
    /\ \E k \in ItemKeys(orderItems, res.id) : orderItems[k].status = "kot_printed"
    /\ \E k \in DOMAIN orderItems :
          orderItems[k].orderId # res.id /\ orderItems[k].status = "pending"

\* C6: the answer of printKOT holds, as kotItems, the items of the order
\* that were pending before the request, as they were, and, as allItems,
\* every item of the order as it is afterwards, none of them pending.
C6_PrintKotAnswer ==
    [][\A o \in DOMAIN orders :
          Answered("printKOT") /\ res'.id = o =>
            /\ res'.code = Ok
            /\ res'.kotItems = {orderItems[k] : k \in
                                  {x \in ItemKeys(orderItems, o) : orderItems[x].status = "pending"}}
            /\ res'.allItems = {orderItems'[k] : k \in ItemKeys(orderItems', o)}
            /\ ItemKeys(orderItems', o) = ItemKeys(orderItems, o)
            /\ \A item \in res'.allItems : item.status # "pending"]_vars

\* A KOT of one pending item on an order that holds a completed item too.
C6_Witness ==
    /\ res.op = "printKOT" /\ res.code = Ok
    /\ Cardinality(res.kotItems) = 1
    /\ Cardinality(res.allItems) = 2
    /\ \E item \in res.allItems : item.status = "completed"

Rank(status) == CASE status = "pending" -> 0
                  [] status = "kot_printed" -> 1
                  [] status = "completed" -> 2
                  [] OTHER -> -1

\* C7: the status of a stored item is pending, kot_printed or completed, and
\* no request moves it backward in that order.
C7_StatusOneDirectional ==
    [][\A k \in (DOMAIN orderItems) \cap (DOMAIN orderItems') :
          /\ orderItems'[k].status \in {"pending", "kot_printed", "completed"}
          /\ Rank(orderItems'[k].status) >= Rank(orderItems[k].status)]_vars

\* C8: the order createOrder answers with has a new id, both timestamps, no
\* items, and subtotal, tax and total of 0.
C8_CreatedOrderZeroed ==
    res.op = "createOrder" =>
        /\ {"id", "createdAt", "updatedAt"} \subseteq DOMAIN res.order
        /\ res.order.id = res.id /\ res.id = currentOrderId - 1
        /\ ItemKeys(orderItems, res.id) = {}
        /\ HasTotals(res.order)
        /\ res.order.subtotal = 0 /\ res.order.tax = 0 /\ res.order.totalAmount = 0

\* C9: the item addItem stores is pending when addItem returns, whatever
\* the request held, and the totals of its order include it.
C9_AddedItemPending ==
    res.op = "addItem" =>
        /\ res.item.id \in DOMAIN orderItems
        /\ orderItems[res.item.id] = res.item
        /\ res.item.status = "pending"
        /\ res.id \in DOMAIN orders => TotalsMatch(orders, orderItems, res.id)

\* C10: settling an existing order succeeds whatever the method, reference
\* and amounts, and leaves it paid, with the method of the request and, for
\* a split settlement, the cash and bank amounts of the request.
C10_SettleStoresRequest ==
    [][\A id \in DOMAIN orders, body \in AllPaymentBodies :
          PostPayment(id, body) =>
            /\ res'.code = Ok
            /\ orders'[id].paymentStatus = "paid"
            /\ orders'[id].paymentMethod = body.paymentMethod
            /\ ( body.paymentMethod = "split" =>
                   /\ orders'[id].cashAmount = body.cashAmount
                   /\ orders'[id].bankAmount = body.bankAmount )]_vars

\* What a settlement stores of the amount, and of the reference, that the
\* request holds: nothing when it holds none, or 0, or the empty text.
StoredAmount(x) == IF x = <<>> \/ x = <<0>> THEN <<>> ELSE x
StoredReference(x) == IF x = <<>> \/ x = <<"">> THEN <<>> ELSE x

\* The payment fields of an order are those the request body determines.
PaymentFieldsFrom(order, body) ==
    /\ order.paymentStatus = "paid"
    /\ order.paymentMethod = body.paymentMethod
    /\ order.bankReference = StoredReference(body.bankReference)
    /\ order.cashAmount = StoredAmount(body.cashAmount)
    /\ order.bankAmount = StoredAmount(body.bankAmount)

PaymentFields(order) ==
    <<order.paymentStatus, order.paymentMethod, order.bankReference,
      order.cashAmount, order.bankAmount>>

\* C11: settling an order that is already paid succeeds; the payment method,
\* reference and amounts it leaves are determined by the request alone,
\* nothing of the earlier settlement survives; and the same request once
\* more leaves the payment fields as they are.
C11_ResettleOverwrites ==
    [][\A id \in DOMAIN orders, body \in AllPaymentBodies :
          PostPayment(id, body) /\ orders[id].paymentStatus = "paid"
          => /\ res'.code = Ok
             /\ PaymentFieldsFrom(orders'[id], body)
             /\ ( PaymentFieldsFrom(orders[id], body)
                  => PaymentFields(orders'[id]) = PaymentFields(orders[id]) )]_vars

\* An order that was paid already, settled once more, in cash: it holds no
\* reference and no amount.
C11_Witness ==
    /\ res.op = "settlePayment" /\ res.code = Ok /\ paidBefore
    /\ orders[res.id].paymentMethod = "cash"
    /\ orders[res.id].bankReference = JsNull
    /\ orders[res.id].cashAmount = JsNull

\* C12: removeItem with an id that is not stored answers NotFound and
\* leaves every order, its totals included, and every stored item as it
\* was.
C12_RemoveUnknownItem ==
    [][Answered("removeItem") /\ res'.id \notin DOMAIN orderItems
          => /\ res'.code = NotFound
             /\ orders' = orders
             /\ orderItems' = orderItems
             /\ currentOrderItemId' = currentOrderItemId]_vars

\* A removal refused while an order with an item and totals is stored.
C12_Witness ==
    /\ res.op = "removeItem" /\ res.code = NotFound
    /\ \E o \in DOMAIN orders :
          /\ HasTotals(orders[o]) /\ orders[o].subtotal > 0
          /\ ItemKeys(orderItems, o) # {}

\* The request answered by the step names an order, or an item, that is
\* not stored.
UnknownId ==
    \/ /\ res'.op \in {"getOrder", "updateOrder", "settlePayment", "addItem",
                      "printKOT", "printBill"}
       /\ res'.id \notin DOMAIN orders
    \/ /\ res'.op \in {"updateQuantity", "updateStatus"}
       /\ res'.id \notin DOMAIN orderItems

\* C13: every order or item operation that names an order or an item that
\* is not stored answers NotFound (HTTP 404) and leaves the stored orders
\* and items as they were.
C13_UnknownIdNotFound ==
    [][clock' = clock /\ UnknownId
          => /\ res'.code = NotFound
             /\ orders' = orders
             /\ orderItems' = orderItems]_vars

\* C16: every stored item belongs to an order of the store.
C16_ItemsBelongToOrders ==
    \A k \in DOMAIN orderItems : orderItems[k].orderId \in DOMAIN orders

\* The sequence lists exactly the given orders, each once, newest first.
ListsNewestFirst(seq, os) ==
    /\ {seq[i] : i \in 1..Len(seq)} = os
    /\ Len(seq) = Cardinality(os)
    /\ \A i, j \in 1..Len(seq) : i < j => seq[i].createdAt >= seq[j].createdAt

\* C17: listOrdersInRange(start, end) returns exactly the stored orders
\* created at a time t with start <= t <= end, newest first, and listOrders
\* returns every stored order, newest first.
C17_ListsInRangeNewestFirst ==
    /\ ListsNewestFirst(getAllOrders(orders), {orders[o] : o \in DOMAIN orders})
    /\ \A startDate, endDate \in 0..EndOfDay(MaxClock) :
          ListsNewestFirst(getOrdersByDateRange(orders, startDate, endDate),
                           {orders[o] : o \in
                              {x \in DOMAIN orders : /\ startDate <= orders[x].createdAt
                                                     /\ orders[x].createdAt <= endDate}})
    /\ res.op = "listOrders" =>
          ListsNewestFirst(res.orders, {orders[o] : o \in DOMAIN orders})

\* A report of two of three stored orders: one created at the very start
\* of the range and one, newer, at its very end; the third is older.
C17_Witness ==
    /\ res.op = "report"
    /\ Cardinality(DOMAIN orders) = 3
    /\ Len(res.orders) = 2
    /\ res.orders[1].createdAt > res.orders[2].createdAt
    /\ \E o \in DOMAIN orders : orders[o].createdAt < res.orders[2].createdAt
    /\ res.orders = getOrdersByDateRange(orders, res.orders[2].createdAt,
                                         res.orders[1].createdAt)

\* C18: a mirror write that fails never shows to the caller: createMenuItem,
\* updateMenuItem and toggleMenuItem answer, whether the write of the file
\* succeeds or fails, with the success and the item that they answer with
\* when it succeeds: the item created, the item updated, the item with its
\* isActive flag turned over.
C18_MirrorFailureUnseen ==
    [][\A mirrorOk \in BOOLEAN :
          /\ PostMenuItem(MenuBody, mirrorOk)
             => /\ res'.code = Created
                /\ res'.item = Spread(MenuBody, [id |-> res'.id])
          /\ \A id \in DOMAIN menuItems :
                /\ PutMenuItem(id, MenuPatch, mirrorOk)
                   => /\ res'.code = Ok
                      /\ res'.item = Spread(menuItems[id], MenuPatch)
                /\ ToggleMenuItem(id, mirrorOk)
                   => /\ res'.code = Ok
                      /\ res'.item.isActive = ~menuItems[id].isActive]_vars

\* C19: the memory is the source of truth: getMenuItem(id) returns the item
\* the memory holds under id (none if it holds none), and getAllMenuItems
\* returns the items the memory holds.
C19_MemoryIsTruth ==
    /\ \A id \in MenuItemIds :
          getMenuItem(menuItems, menuItemFiles, id) =
             IF id \in DOMAIN menuItems THEN <<menuItems[id]>> ELSE <<>>
    /\ getAllMenuItems(menuItems, menuItemFiles) = Values(menuItems)

C23_NeitherUpdateLost ==
    /\ [](reqs = <<>> =>
            \A o \in DOMAIN orders :
                HasTotals(orders[o]) => TotalsMatch(orders, orderItems, o))
    /\ [][\A o \in DOMAIN orders :
             orders[o].paymentStatus = "paid"
             => /\ o \in DOMAIN orders'
                /\ PaymentFieldsFrom(orders'[o], PaySplit)]_vars

\* An item mutation that read the order before it was settled is suspended
\* in the recalculation, and the order has been settled since.
C23_Witness ==
    \E r \in DOMAIN reqs :
        /\ reqs[r].pc = "getOrderItems"
        /\ reqs[r].order[1].paymentStatus = "unpaid"
        /\ orders[reqs[r].orderId].paymentStatus = "paid"

\* C24: toggleMenuItem on a stored menu item turns its isActive flag over
\* exactly once and answers with the item that holds the new flag, whether
\* the write of the file succeeds or fails.
C24_ToggleFlipsOnce ==
    [][\A id \in DOMAIN menuItems, mirrorOk \in BOOLEAN :
          ToggleMenuItem(id, mirrorOk)
          => /\ menuItems'[id] = Spread(menuItems[id], [isActive |-> ~menuItems[id].isActive])
             /\ res'.item = menuItems'[id]
             /\ res'.item.isActive # menuItems[id].isActive]_vars

\* C25: the items of a category, as the routes serve them, are those
\* MemStorage.getMenuItemsByCategory gives: the stored items of the category
\* that are active; an item toggled inactive is not listed.
C25_CategoryListsActive ==
    [][\A categoryId \in CategoryIds :
          GetMenuItemsByCategory(categoryId)
          => /\ res'.menuItems = MemStorage_getMenuItemsByCategory(menuItems, categoryId)
             /\ \A item \in res'.menuItems : item.isActive]_vars

\* C26: no two stored users share a username, however register requests
\* overlap; a register request for a stored username is answered 400 and
\* creates no user.
C26_UsernamesUnique ==
    \A a, b \in DOMAIN users :
        users[a].username = users[b].username => a = b

\* C27: handleAddToOrder invoked without a current order creates an order
\* and then adds the chosen item to it: eventually the new order holds an
\* item with the menu item and the quantity that were chosen.
C27_AddToNewOrder ==
    (page.timer # <<>>) ~>
        ( /\ page.currentOrderId # Undefined
          /\ \E k \in DOMAIN orderItems :
                /\ orderItems[k].orderId = page.currentOrderId[1]
                /\ orderItems[k].menuItemId = page.asked[1].menuItemId
                /\ orderItems[k].quantity = page.asked[1].quantity )

\* C28: when creations do not overlap, the k-th order created receives the
\* order number 1000 + k, which is greater than the number of every order
\* created before it.
C28_NumberIsThousandPlusK ==
    [][Answered("createOrder")
          => LET k == Cardinality(DOMAIN orders) + 1
             IN  /\ res'.code = Created
                 /\ res'.order.orderNumber = 1000 + k
                 /\ orders'[res'.id].orderNumber = 1000 + k
                 /\ \A o \in DOMAIN orders :
                       orders[o].orderNumber < res'.order.orderNumber]_vars

\* A second or later order has just been created, and its number is one
\* more than that of the order created before it.
C28_Witness ==
    /\ res.op = "createOrder" /\ res.code = Created
    /\ \E o \in DOMAIN orders :
          /\ o # res.id
          /\ orders[res.id].orderNumber = orders[o].orderNumber + 1

\* C29: ids of orders and of order items are unique and never used again:
\* however creations, additions and removals overlap, every stored record
\* holds the id it is stored under, an id below the counter, and a step
\* that stores a new record stores it under the counter, which it raises;
\* no step lowers a counter, so a new id is above every id given before,
\* those of removed items included.
C29_IdsNeverReused ==
    /\ [](/\ \A o \in DOMAIN orders : orders[o].id = o /\ o < currentOrderId
          /\ \A k \in DOMAIN orderItems : orderItems[k].id = k /\ k < currentOrderItemId)
    /\ [][/\ currentOrderId' >= currentOrderId
          /\ currentOrderItemId' >= currentOrderItemId
          /\ \A o \in DOMAIN orders' \ DOMAIN orders :
                o = currentOrderId /\ currentOrderId' = o + 1
          /\ \A k \in DOMAIN orderItems' \ DOMAIN orderItems :
                k = currentOrderItemId /\ currentOrderItemId' = k + 1]_vars

\* The first item was removed and a later one is stored, and an order
\* whose request carried an id is stored.
C29_Witness ==
    /\ 1 \notin DOMAIN orderItems
    /\ \E k \in DOMAIN orderItems : k > 1
    /\ \E o \in DOMAIN orders : orders[o].tableNumber = OrderBodyWithId.tableNumber

\* The fields of a record other than the given ones.
Without(record, fields) == [f \in (DOMAIN record) \ fields |-> record[f]]

\* C30: printKOT, printBill and updateOrderItemStatus change nothing but
\* the status of order items: every order, and every field of every item
\* but its status, is after the call what it was before; settlePayment
\* changes no order item and no field of an order but its payment fields
\* and updatedAt, so none of subtotal, tax and totalAmount.
C30_StatusAndPaymentFrames ==
    [][/\ (res'.op \in {"printKOT", "printBill", "updateStatus"} /\ clock' = clock)
          => /\ orders' = orders
             /\ DOMAIN orderItems' = DOMAIN orderItems
             /\ \A k \in DOMAIN orderItems :
                   Without(orderItems'[k], {"status"}) = Without(orderItems[k], {"status"})
       /\ (res'.op = "settlePayment" /\ clock' = clock)
          => /\ orderItems' = orderItems
             /\ DOMAIN orders' = DOMAIN orders
             /\ \A o \in DOMAIN orders :
                   LET payment == {"paymentStatus", "paymentMethod", "bankReference",
                                   "cashAmount", "bankAmount", "updatedAt"}
                   IN  Without(orders'[o], payment) = Without(orders[o], payment)]_vars

\* A bill printed for a settled parcel order that holds totals and an item,
\* now completed.
C30_Witness ==
    /\ res.op = "printBill" /\ res.code = Ok
    /\ orders[res.id].paymentStatus = "paid"
    /\ HasTotals(orders[res.id]) /\ orders[res.id].subtotal > 0
    /\ \E k \in DOMAIN orderItems :
          orderItems[k].orderId = res.id /\ orderItems[k].status = "completed"

====
